---- MODULE Spec2Model ----
(***************************************************************************)
(* ZPR_zad_dodatkowe_jthread.cpp: std::thread against std::jthread and     *)
(* std::stop_token.  main (the owner thread) runs four demonstrations one  *)
(* after another; each one launches one worker thread:                     *)
(*   1  przykladThread           std::thread  t{incr, max/4}               *)
(*   2  przykladJThread          std::jthread t{incr, max/4}               *)
(*   3  przykladStopTokenThread  std::thread  t(lambda [stoken])           *)
(*   4  przykladStopToken        std::jthread t(lambda (stop_token))       *)
(* A demonstration's number names its thread object, its worker and (for   *)
(* 2, 3 and 4) the stop state its handles share.  Console output and the   *)
(* length of the sleeps are left out: a sleep is a step that may take any  *)
(* time, which the interleaving of owner and worker steps covers.          *)
(***************************************************************************)
EXTENDS Integers, FiniteSets, Sequences

VARIABLES
    variant,   \* which build runs: the file as written, or one it documents
    proc,      \* "running", "terminated" (std::terminate) or "exited"
    opc,       \* the owner thread's position
    i,         \* the owner's loop counter (lines 48 and 70)
    tstate,    \* thread object -> "NotConstructed", "Live" (joinable), "Completed"
    wpc,       \* worker -> position of its thread function
    val,       \* worker 1, 2 -> incr's local val (line 22)
    value,     \* worker 3, 4 -> the lambda's local value (lines 112, 142)
    stop,      \* stop state -> stop requested?
    handles    \* stop state -> the stop_source/stop_token objects alive on it

vars == <<variant, proc, opc, i, tstate, wpc, val, value, stop, handles>>

----------------------------------------------------------------------------
(* Bounds and the program's numbers.                                       *)

\* uint32_t and int are modelled UintBits wide instead of 32.
UintBits == 6

Modulus == 2 ^ UintBits

\* numeric_limits<uint32_t>::max()
UINT32_MAX == Modulus - 1

\* numeric_limits<int>::max()
INT_MAX == (Modulus \div 2) - 1

IntRange == (0 - (Modulus \div 2)) .. INT_MAX

\* the argument of incr, lines 46 and 68
Boundary == UINT32_MAX \div 4

\* an end set beyond the bound of the owner's loop
EndBeyondLoop == (UINT32_MAX \div 24) + 1

\* const uint32_t end, lines 45 and 67
End == UINT32_MAX \div 32

\* the bound of the owner's for loop, lines 48 and 70
LoopBound == UINT32_MAX \div 24

\* an int converted to uint32_t for the comparisons of lines 70 and 71
ToUint32(x) == x % Modulus

Demos == 1 .. 4
IncrWorkers == {1, 2}
PollWorkers == {3, 4}
StopStates == {2, 3, 4}

\* The file as written, and the two builds its comments describe: line 50
\* (comment out the t.join() of line 51) and lines 124-126 (comment out
\* stopSource.request_stop()).
AsWritten == "asWritten"
NoJoin51 == "noJoin51"
NoRequestStop126 == "noRequestStop126"
Variants == {AsWritten, NoJoin51, NoRequestStop126}

----------------------------------------------------------------------------
(* The library operations the file calls, as the file's comments describe  *)
(* them (lines 4-9, 50, 124-126, 133).                                     *)

\* A thread object and the stop state of a jthread share the demo's number.
Update(f, k, v) == [f EXCEPT ![k] = v]

\* a request that flips the flag instead of setting it
RequestStopToggle(st, s) == [st EXCEPT ![s] = ~st[s]]

\* a request that is lost
RequestStopLost(st, s) == st

\* stop_source::request_stop (line 126; inside ~jthread, line 133)
RequestStop(st, s) == Update(st, s, TRUE)

\* a token that reports a request nobody made
StopRequestedAlways(st, s) == TRUE

\* stop_token::stop_requested (lines 114 and 144)
StopRequested(st, s) == st[s]

\* an incr that gives up once its jthread's stop was requested
IncrLoopCondCancellable(v, boundary) == v < boundary /\ ~stop[2]

\* incr's loop condition, line 23
IncrLoopCond(v, boundary) == v < boundary

\* ++value on a uint32_t (lines 115 and 145) wraps
NextValue(v) == (v + 1) % Modulus

\* a join that does not wait
JoinReadyNoWait(pcs, w) == TRUE

\* a join that returns as soon as the worker has left its loop
JoinReadyEarly(pcs, w) == pcs[w] \in {"print", "stopped", "done"}

\* join() returns once the thread function has returned (line 41: "Biezacy
\* watek czeka na zakonczenie watku t")
JoinReady(pcs, w) == pcs[w] = "done"

\* a join after which the object looks never constructed
JoinEffectReset(ts, o) == [ts EXCEPT ![o] = "NotConstructed"]

\* after join() the thread is not joinable (lines 7-8)
JoinEffect(ts, o) == Update(ts, o, "Completed")

\* a std::thread destructor that lets a joinable thread go
ThreadDtorNeverTerminates(ts, o) == FALSE

\* ~thread: if joinable() then std::terminate (line 6)
ThreadDtorTerminates(ts, o) == ts[o] = "Live"

\* a ~jthread that only joins, as a std::thread joined by hand would
JThreadDtorStopOmitted(st, o) == st

\* ~jthread calls request_stop() before it joins (line 133)
JThreadDtorStop(st, o) == RequestStop(st, o)

\* a thread function that is handed no token of its own
TokenCopyMissing(hs, s) == hs

\* the thread function gets its own copy of the token: the capture
\* [stoken = stopToken] of line 111, the parameter stop_token stoken of line 141
TokenCopy(hs, s) == Update(hs, s, hs[s] \cup {"stoken"})

\* a przykladThread without the return of line 53: after the join of line 51
\* control falls out of the if and reaches the join of line 58
JoinNextFallsThrough(pc) ==
    IF pc = "s_join" THEN "s_dtor" ELSE IF pc = "t_join51" THEN "t_join58" ELSE "t_dtor"

\* a thread that stops being joinable when its function returns
ReturnEffectCompletes(ts, o) == [ts EXCEPT ![o] = "Completed"]

\* a thread function's return does not touch the thread object: only join()
\* or detach() end joinability (lines 7-8)
ReturnEffect(ts, o) == ts

----------------------------------------------------------------------------
(* Where the owner is.                                                     *)

\* the t.join() calls of lines 51, 58 and 128
JoinSites == {"t_join51", "t_join58", "s_join"}

JoinObj(pc) == IF pc = "s_join" THEN 3 ELSE 1

JoinNext(pc) == IF pc = "s_join" THEN "s_dtor" ELSE "t_dtor"

\* the ends of the scopes that own a std::thread (lines 53/59 and 129)
ThreadDtorSites == {"t_dtor", "s_dtor"}

ThreadDtorObj(pc) == IF pc = "s_dtor" THEN 3 ELSE 1

ThreadDtorNext(pc) == IF pc = "s_dtor" THEN "k_ctor" ELSE "j_ctor"

\* the ends of the scopes that own a std::jthread (lines 73/77 and 153)
JThreadDtorSites == {"j_dtor", "k_dtor"}

JThreadDtorJoinSites == {"j_dtor_join", "k_dtor_join"}

JThreadObj(pc) == IF pc \in {"k_dtor", "k_dtor_join"} THEN 4 ELSE 2

JThreadDtorJoinPc(pc) == IF pc = "k_dtor" THEN "k_dtor_join" ELSE "j_dtor_join"

JThreadDtorNext(pc) == IF pc = "k_dtor_join" THEN "m_ret" ELSE "s_source"

Running == proc = "running"

----------------------------------------------------------------------------
(* The state at the start of main.                                         *)

InitState ==
    /\ proc = "running"
    /\ opc = "t_ctor"
    /\ i = 0
    /\ tstate = [o \in Demos |-> "NotConstructed"]
    /\ wpc = [w \in Demos |-> "idle"]
    /\ val = [w \in IncrWorkers |-> 0]
    /\ value = [w \in PollWorkers |-> 0]
    /\ stop = [s \in StopStates |-> FALSE]
    /\ handles = [s \in StopStates |-> {}]

Init == variant = AsWritten /\ InitState

InitVariants == variant \in Variants /\ InitState

----------------------------------------------------------------------------
(* przykladThread, lines 44-59.                                            *)

\* lines 45-46 and the i = 0 of line 48
T_Ctor ==
    /\ Running /\ opc = "t_ctor"
    /\ tstate' = Update(tstate, 1, "Live")
    /\ wpc' = Update(wpc, 1, "start")
    /\ i' = 0
    /\ opc' = "t_loop"
    /\ UNCHANGED <<variant, proc, val, value, stop, handles>>

\* one pass of the for loop: the test of line 48, the if of line 49 and ++i;
\* when the test fails, line 56 and on to the join of line 58
T_Loop ==
    /\ Running /\ opc = "t_loop"
    /\ IF ~(i <= LoopBound)
         THEN opc' = "t_join58" /\ i' = i
         ELSE IF i = End
                THEN /\ opc' = IF variant = NoJoin51 THEN "t_dtor" ELSE "t_join51"
                     /\ i' = i
                ELSE opc' = opc /\ i' = (i + 1) % Modulus
    /\ UNCHANGED <<variant, proc, tstate, wpc, val, value, stop, handles>>

\* t.join() on a std::thread, lines 51, 58 and 128: blocks until the worker
\* has returned; on a thread that is not joinable it throws, and nothing in
\* the file catches
Join ==
    /\ Running /\ opc \in JoinSites
    /\ LET o == JoinObj(opc) IN
         IF tstate[o] = "Live"
           THEN /\ JoinReady(wpc, o)
                /\ tstate' = JoinEffect(tstate, o)
                /\ opc' = JoinNext(opc)
                /\ proc' = proc
           ELSE /\ proc' = "terminated"
                /\ UNCHANGED <<tstate, opc>>
    /\ UNCHANGED <<variant, i, wpc, val, value, stop, handles>>

\* ~thread at the return of line 53, the end of line 59 and the end of line
\* 129 (where stopToken and stopSource are destroyed after t)
ThreadDtor ==
    /\ Running /\ opc \in ThreadDtorSites
    /\ LET o == ThreadDtorObj(opc) IN
         IF ThreadDtorTerminates(tstate, o)
           THEN /\ proc' = "terminated"
                /\ UNCHANGED <<opc, handles>>
           ELSE /\ proc' = proc
                /\ opc' = ThreadDtorNext(opc)
                /\ handles' = IF o = 3
                                THEN Update(handles, 3,
                                       handles[3] \ {"stopSource", "stopToken"})
                                ELSE handles
    /\ UNCHANGED <<variant, i, tstate, wpc, val, value, stop>>

----------------------------------------------------------------------------
(* przykladJThread, lines 66-77.                                           *)

\* lines 67-68 and the i = 0 of line 70; the jthread owns a stop_source
J_Ctor ==
    /\ Running /\ opc = "j_ctor"
    /\ tstate' = Update(tstate, 2, "Live")
    /\ wpc' = Update(wpc, 2, "start")
    /\ stop' = Update(stop, 2, FALSE)
    /\ handles' = Update(handles, 2, {"ssource"})
    /\ i' = 0
    /\ opc' = "j_loop"
    /\ UNCHANGED <<variant, proc, val, value>>

\* one pass of the for loop of lines 70-75, i an int compared as uint32_t;
\* ++i past INT_MAX is undefined
J_Loop ==
    /\ Running /\ opc = "j_loop"
    /\ IF ~(ToUint32(i) <= LoopBound)
         THEN opc' = "j_dtor" /\ i' = i
         ELSE IF ToUint32(i) = End
                THEN opc' = "j_dtor" /\ i' = i
                ELSE /\ opc' = opc
                     /\ i' \in (IF i = INT_MAX THEN IntRange ELSE {i + 1})
    /\ UNCHANGED <<variant, proc, tstate, wpc, val, value, stop, handles>>

\* a ~jthread whose request_stop() waits for the worker to return
JThreadDtorRequestWaits ==
    /\ Running /\ opc \in JThreadDtorSites
    /\ JoinReady(wpc, JThreadObj(opc))
    /\ stop' = JThreadDtorStop(stop, JThreadObj(opc))
    /\ opc' = JThreadDtorJoinPc(opc)
    /\ UNCHANGED <<variant, proc, i, tstate, wpc, val, value, handles>>

\* ~jthread, first half (line 133: "Destruktor jthread wola request_stop()
\* i nastepnie join()")
JThreadDtorRequest ==
    /\ Running /\ opc \in JThreadDtorSites
    /\ stop' = JThreadDtorStop(stop, JThreadObj(opc))
    /\ opc' = JThreadDtorJoinPc(opc)
    /\ UNCHANGED <<variant, proc, i, tstate, wpc, val, value, handles>>

\* ~jthread, second half: join, then the members are released
JThreadDtorJoin ==
    /\ Running /\ opc \in JThreadDtorJoinSites
    /\ LET o == JThreadObj(opc) IN
         /\ JoinReady(wpc, o)
         /\ tstate' = JoinEffect(tstate, o)
         /\ handles' = Update(handles, o, handles[o] \ {"ssource"})
    /\ opc' = JThreadDtorNext(opc)
    /\ UNCHANGED <<variant, proc, i, wpc, val, value, stop>>

----------------------------------------------------------------------------
(* przykladStopTokenThread, lines 101-129.                                 *)

\* line 102
S_Source ==
    /\ Running /\ opc = "s_source"
    /\ stop' = Update(stop, 3, FALSE)
    /\ handles' = Update(handles, 3, {"stopSource"})
    /\ opc' = "s_token"
    /\ UNCHANGED <<variant, proc, i, tstate, wpc, val, value>>

\* line 105
S_GetToken ==
    /\ Running /\ opc = "s_token"
    /\ handles' = Update(handles, 3, handles[3] \cup {"stopToken"})
    /\ opc' = "s_ctor"
    /\ UNCHANGED <<variant, proc, i, tstate, wpc, val, value, stop>>

\* line 111: the lambda captures a copy of stopToken
S_Ctor ==
    /\ Running /\ opc = "s_ctor"
    /\ tstate' = Update(tstate, 3, "Live")
    /\ wpc' = Update(wpc, 3, "start")
    /\ handles' = TokenCopy(handles, 3)
    /\ opc' = "s_sleep"
    /\ UNCHANGED <<variant, proc, i, val, value, stop>>

\* line 122
S_Sleep ==
    /\ Running /\ opc = "s_sleep"
    /\ opc' = IF variant = NoRequestStop126 THEN "s_join" ELSE "s_request"
    /\ UNCHANGED <<variant, proc, i, tstate, wpc, val, value, stop, handles>>

\* line 126
S_RequestStop ==
    /\ Running /\ opc = "s_request"
    /\ stop' = RequestStop(stop, 3)
    /\ opc' = "s_join"
    /\ UNCHANGED <<variant, proc, i, tstate, wpc, val, value, handles>>

----------------------------------------------------------------------------
(* przykladStopToken, lines 136-153, and the return of main.               *)

\* line 141: the jthread owns a stop_source and hands its token to the lambda
K_Ctor ==
    /\ Running /\ opc = "k_ctor"
    /\ tstate' = Update(tstate, 4, "Live")
    /\ wpc' = Update(wpc, 4, "start")
    /\ stop' = Update(stop, 4, FALSE)
    /\ handles' = TokenCopy(Update(handles, 4, {"ssource"}), 4)
    /\ opc' = "k_sleep"
    /\ UNCHANGED <<variant, proc, i, val, value>>

\* line 152
K_Sleep ==
    /\ Running /\ opc = "k_sleep"
    /\ opc' = "k_dtor"
    /\ UNCHANGED <<variant, proc, i, tstate, wpc, val, value, stop, handles>>

\* line 172
M_Return ==
    /\ Running /\ opc = "m_ret"
    /\ opc' = "exited"
    /\ proc' = "exited"
    /\ UNCHANGED <<variant, i, tstate, wpc, val, value, stop, handles>>

----------------------------------------------------------------------------
(* The workers.                                                            *)

\* line 22
IncrStart(w) ==
    /\ Running /\ wpc[w] = "start"
    /\ val' = Update(val, w, 0)
    /\ wpc' = Update(wpc, w, "loop")
    /\ UNCHANGED <<variant, proc, opc, i, tstate, value, stop, handles>>

\* lines 23-25: one test of the loop condition and, when it holds, ++val
IncrLoop(w) ==
    /\ Running /\ wpc[w] = "loop"
    /\ IF IncrLoopCond(val[w], Boundary)
         THEN val' = Update(val, w, val[w] + 1) /\ wpc' = wpc
         ELSE val' = val /\ wpc' = Update(wpc, w, "print")
    /\ UNCHANGED <<variant, proc, opc, i, tstate, value, stop, handles>>

\* lines 27-28
IncrReturn(w) ==
    /\ Running /\ wpc[w] = "print"
    /\ wpc' = Update(wpc, w, "done")
    /\ tstate' = ReturnEffect(tstate, w)
    /\ UNCHANGED <<variant, proc, opc, i, val, value, stop, handles>>

\* lines 112-113 and 142-143
PollStart(w) ==
    /\ Running /\ wpc[w] = "start"
    /\ value' = Update(value, w, 0)
    /\ wpc' = Update(wpc, w, "poll")
    /\ UNCHANGED <<variant, proc, opc, i, tstate, val, stop, handles>>

\* a poll that clears the request it has seen
PollTestConsuming(w) ==
    /\ Running /\ wpc[w] = "poll"
    /\ wpc' = Update(wpc, w, IF StopRequested(stop, w) THEN "stopped" ELSE "incr")
    /\ stop' = Update(stop, w, FALSE)
    /\ UNCHANGED <<variant, proc, opc, i, tstate, val, value, handles>>

\* the loop condition of lines 114 and 144; a poll through a token that is
\* not alive is undefined and may answer either way
PollTest(w) ==
    /\ Running /\ wpc[w] = "poll"
    /\ \E r \in (IF "stoken" \in handles[w] THEN {StopRequested(stop, w)} ELSE BOOLEAN) :
         wpc' = Update(wpc, w, IF r THEN "stopped" ELSE "incr")
    /\ UNCHANGED <<variant, proc, opc, i, tstate, val, value, stop, handles>>

\* lines 115 and 145
PollIncr(w) ==
    /\ Running /\ wpc[w] = "incr"
    /\ value' = Update(value, w, NextValue(value[w]))
    /\ wpc' = Update(wpc, w, "sleep")
    /\ UNCHANGED <<variant, proc, opc, i, tstate, val, stop, handles>>

\* a loop that goes round again without asking the token
PollSleepSkipsPoll(w) ==
    /\ Running /\ wpc[w] = "sleep"
    /\ wpc' = Update(wpc, w, "incr")
    /\ UNCHANGED <<variant, proc, opc, i, tstate, val, value, stop, handles>>

\* lines 117 and 146
PollSleep(w) ==
    /\ Running /\ wpc[w] = "sleep"
    /\ wpc' = Update(wpc, w, "poll")
    /\ UNCHANGED <<variant, proc, opc, i, tstate, val, value, stop, handles>>

\* lines 119-120 and 148-149: the lambda returns and its token is destroyed
PollReturn(w) ==
    /\ Running /\ wpc[w] = "stopped"
    /\ wpc' = Update(wpc, w, "done")
    /\ tstate' = ReturnEffect(tstate, w)
    /\ handles' = Update(handles, w, handles[w] \ {"stoken"})
    /\ UNCHANGED <<variant, proc, opc, i, val, value, stop>>

----------------------------------------------------------------------------
(* The specifications.                                                     *)

OwnerNext ==
    \/ T_Ctor \/ T_Loop \/ Join \/ ThreadDtor
    \/ J_Ctor \/ J_Loop \/ JThreadDtorRequest \/ JThreadDtorJoin
    \/ S_Source \/ S_GetToken \/ S_Ctor \/ S_Sleep \/ S_RequestStop
    \/ K_Ctor \/ K_Sleep \/ M_Return

IncrNext(w) == IncrStart(w) \/ IncrLoop(w) \/ IncrReturn(w)

PollNext(w) ==
    PollStart(w) \/ PollTest(w) \/ PollIncr(w) \/ PollSleep(w) \/ PollReturn(w)

WorkerNext(w) == IF w \in IncrWorkers THEN IncrNext(w) ELSE PollNext(w)

Next ==
    \/ T_Ctor \/ T_Loop \/ Join \/ ThreadDtor
    \/ J_Ctor \/ J_Loop \/ JThreadDtorRequest \/ JThreadDtorJoin
    \/ S_Source \/ S_GetToken \/ S_Ctor \/ S_Sleep \/ S_RequestStop
    \/ K_Ctor \/ K_Sleep \/ M_Return
    \/ \E w \in IncrWorkers : IncrStart(w)
    \/ \E w \in IncrWorkers : IncrLoop(w)
    \/ \E w \in IncrWorkers : IncrReturn(w)
    \/ \E w \in PollWorkers : PollStart(w)
    \/ \E w \in PollWorkers : PollTest(w)
    \/ \E w \in PollWorkers : PollIncr(w)
    \/ \E w \in PollWorkers : PollSleep(w)
    \/ \E w \in PollWorkers : PollReturn(w)

\* the file as written
Spec == Init /\ [][Next]_vars

\* the file as written and the two builds its comments describe
SpecVariants == InitVariants /\ [][Next]_vars

\* Owner and workers are operating-system threads: each one that can take a
\* step eventually takes it.
Fairness == WF_vars(OwnerNext) /\ \A w \in Demos : WF_vars(WorkerNext(w))

FairSpec == Spec /\ Fairness

FairSpecVariants == SpecVariants /\ Fairness

TypeOK ==
    /\ variant \in Variants
    /\ proc \in {"running", "terminated", "exited"}
    /\ i \in IntRange \cup (0 .. UINT32_MAX)
    /\ tstate \in [Demos -> {"NotConstructed", "Live", "Completed"}]
    /\ wpc \in [Demos -> {"idle", "start", "loop", "print", "poll", "incr",
                          "sleep", "stopped", "done"}]
    /\ val \in [IncrWorkers -> 0 .. Boundary]
    /\ value \in [PollWorkers -> 0 .. UINT32_MAX]
    /\ stop \in [StopStates -> BOOLEAN]
    /\ handles \in [StopStates -> SUBSET {"stopSource", "stopToken", "stoken", "ssource"}]

----------------------------------------------------------------------------
(* Positions of the owner, in program order.                               *)

PcOrder ==
    << "t_ctor", "t_loop", "t_join51", "t_join58", "t_dtor",
       "j_ctor", "j_loop", "j_dtor", "j_dtor_join",
       "s_source", "s_token", "s_ctor", "s_sleep", "s_request", "s_join", "s_dtor",
       "k_ctor", "k_sleep", "k_dtor", "k_dtor_join", "m_ret", "exited" >>

Pos(pc) == CHOOSE n \in 1 .. Len(PcOrder) : PcOrder[n] = pc

\* the owner has completed the step that starts at pc
Past(pc) == Pos(opc) > Pos(pc)

\* the owner's request on the stop state that poll worker w reads has
\* returned: line 126 for worker 3, the first half of ~jthread for worker 4
RequestMade(w) ==
    IF w = 3 THEN variant # NoRequestStop126 /\ Past("s_request")
             ELSE Past("k_dtor")

----------------------------------------------------------------------------
(* The claims.                                                             *)

C2_DtorRequestsThenWaits ==
    /\ (opc = "k_dtor_join") => (stop[4] /\ tstate[4] = "Live")
    /\ Past("k_dtor_join") =>
         (wpc[4] = "done" /\ stop[4] /\ tstate[4] = "Completed")

C2_Witness == opc = "m_ret" /\ wpc[4] = "done" /\ stop[4] /\ tstate[4] = "Completed"

\* C3: under fair scheduling, once the jthread of przykladStopToken is live
\* the owner gets past the end of the scope with the stop requested and the
\* worker returned, and the process is never terminated on the way.
C3_ScopeExitCompletes ==
    /\ (tstate[4] = "Live") ~>
         (Past("k_dtor_join") /\ stop[4] /\ wpc[4] = "done")
    /\ [](Past("s_dtor") => proc # "terminated")

\* main has returned after a worker 4 that counted before it saw the request
C3_Witness == proc = "exited" /\ wpc[4] = "done" /\ value[4] > 0 /\ stop[4]

\* C6: a thread object is NotConstructed until its constructor makes it
\* Live; it leaves Live only to Completed and only in a step that is a
\* join() or the join inside ~jthread; once Completed it stays Completed.
C6_LiveThenCompleted ==
    [][ \A o \in Demos :
          /\ tstate[o] = "Completed" => tstate'[o] = "Completed"
          /\ (tstate[o] = "NotConstructed" /\ tstate'[o] # "NotConstructed")
               => (tstate'[o] = "Live" /\ opc \in {"t_ctor", "j_ctor", "s_ctor", "k_ctor"})
          /\ (tstate[o] = "Live" /\ tstate'[o] # "Live")
               => /\ tstate'[o] = "Completed"
                  /\ opc \in JoinSites \cup JThreadDtorJoinSites
                  /\ opc' # opc ]_vars

\* every thread object of the run has been Live and is Completed
C6_Witness == opc = "exited" /\ \A o \in Demos : tstate[o] = "Completed"

\* C7: a poll that begins after the owner's request has returned answers
\* true; a worker whose poll answered false before the request (it is in its
\* loop body when the request returns) polls again and then leaves the loop.
C7_RequestObserved ==
    /\ [][ \A w \in PollWorkers :
             (RequestMade(w) /\ wpc[w] = "poll" /\ wpc'[w] # "poll")
                => wpc'[w] = "stopped" ]_vars
    /\ \A w \in PollWorkers :
         (RequestMade(w) /\ wpc[w] \in {"incr", "sleep"}) ~> (wpc[w] = "stopped")

\* the request of line 126 has returned while worker 3 is inside its loop body
C7_Witness == opc = "s_join" /\ stop[3] /\ wpc[3] = "sleep"

\* C8: incr never leaves its loop with val < boundary, also when the stop of
\* its jthread is requested meanwhile, and whenever the owner is past the end
\* of przykladJThread the worker has returned with val = boundary.
C8_IncrIgnoresStop ==
    /\ wpc[2] \in {"print", "done"} => val[2] = Boundary
    /\ Past("j_dtor_join") => (wpc[2] = "done" /\ val[2] = Boundary /\ stop[2])

\* ~jthread has requested the stop and waits while incr is still counting
C8_Witness ==
    opc = "j_dtor_join" /\ stop[2] /\ wpc[2] = "loop" /\ 0 < val[2] /\ val[2] < Boundary

\* C9: in the build without line 126 worker 3 never leaves its loop and the
\* owner never gets past the join of line 128; in the file as written, under
\* fair scheduling, the owner at that join eventually gets past it.
C9_RequestLetsJoinReturn ==
    /\ [](variant = NoRequestStop126
            => (~Past("s_join") /\ wpc[3] \notin {"stopped", "done"} /\ ~stop[3]))
    /\ (variant = AsWritten /\ opc = "s_join") ~> (Past("s_join") /\ wpc[3] = "done")

\* without line 126 the owner sits in join() while the worker's counter has
\* gone all the way round
C9_Witness ==
    variant = NoRequestStop126 /\ opc = "s_join" /\ wpc[3] = "sleep"
        /\ value[3] = UINT32_MAX /\ tstate[3] = "Live"

\* C10: the process is terminated only by the destructor of a std::thread
\* that is still Live, which happens exactly in the build without the join
\* of line 51: that build never gets past the end of przykladThread, and in
\* the other builds both std::thread objects are Completed when destroyed.
C10_LiveThreadDtorTerminates ==
    /\ proc = "terminated" =>
         (variant = NoJoin51 /\ opc = "t_dtor" /\ tstate[1] = "Live")
    /\ variant = NoJoin51 => ~Past("t_dtor")
    /\ (variant # NoJoin51 /\ Past("t_dtor")) => tstate[1] = "Completed"
    /\ Past("s_dtor") => tstate[3] = "Completed"

C10_Witness == proc = "terminated" /\ variant = NoJoin51

\* the wait on poll worker w has returned: the join of line 128 for worker
\* 3, the join inside ~jthread for worker 4
WaitReturned(w) == IF w = 3 THEN Past("s_join") ELSE Past("k_dtor_join")

\* worker w has been launched and its thread function has not returned
WorkerRunning(w) == wpc[w] \notin {"idle", "done"}

C12_PollsSeeLiveState ==
    /\ [](\A w \in PollWorkers :
            WorkerRunning(w) => ("stoken" \in handles[w] /\ handles[w] # {}))
    /\ [][ \A w \in PollWorkers :
             /\ (wpc[w] = "poll" /\ wpc'[w] # "poll") => "stoken" \in handles[w]
             /\ ("stoken" \in handles[w] \ handles'[w])
                  => (wpc[w] = "stopped" /\ wpc'[w] = "done")
             /\ ~(handles[w] \ handles'[w] \subseteq {"stoken"})
                  => wpc[w] = "done" ]_vars

\* the owner's stop_source and stop_token are gone, the worker's copy was
\* released when the lambda returned: the last handle of stop state 3 is gone
C12_Witness == opc = "k_ctor" /\ handles[3] = {} /\ wpc[3] = "done" /\ stop[3]

\* C13: once the owner's request has returned, a polling worker's counter
\* changes only in a worker that was already past its poll (at ++value): by
\* that one increment, after which the worker sleeps, polls and never comes
\* back to ++value; and once the wait on the worker has returned the counter
\* never changes.
C13_AtMostOneLateIncrement ==
    [][ \A w \in PollWorkers :
          /\ (RequestMade(w) /\ wpc[w] # "incr")
               => (value'[w] = value[w] /\ wpc'[w] # "incr")
          /\ (RequestMade(w) /\ wpc[w] = "incr" /\ wpc'[w] # "incr")
               => (value'[w] = NextValue(value[w]) /\ wpc'[w] = "sleep")
          /\ WaitReturned(w) => (value'[w] = value[w] /\ wpc'[w] = "done") ]_vars

\* ~jthread has requested the stop while worker 4 stands at ++value: the one
\* late increment is about to happen
C13_Witness == opc = "k_dtor_join" /\ stop[4] /\ wpc[4] = "incr" /\ value[4] > 0

\* C14: a stop state changes only in a step of the owner at a request_stop()
\* and only to requested, never in a step of a worker; the workers' counters
\* val and value change only in steps in which the owner does nothing.
C14_ProducerWritesWorkerCounts ==
    [][ /\ \A s \in StopStates :
             stop'[s] # stop[s]
               => /\ stop'[s]
                  /\ wpc' = wpc
                  /\ opc \in JThreadDtorSites \cup {"s_request"}
                  /\ opc' # opc
        /\ (wpc' # wpc /\ opc' = opc /\ tstate' = tstate) => stop' = stop
        /\ (val' # val \/ value' # value)
              => (opc' = opc /\ i' = i /\ proc' = proc /\ tstate' = tstate
                    /\ stop' = stop /\ handles' = handles) ]_vars

\* worker 4 has counted and returned on the request of ~jthread, which is
\* still waiting in its join
C14_Witness == opc = "k_dtor_join" /\ wpc[4] = "done" /\ value[4] > 0 /\ stop[4]

\* C15: in the file as written the process is never terminated: every
\* join() of a std::thread is called on a Live object (so never a second
\* time on the same one), and every std::thread is Completed, joined exactly
\* that once, when its destructor runs.
C15_JoinedExactlyOnce ==
    /\ [](proc # "terminated")
    /\ [](opc \in JoinSites => tstate[JoinObj(opc)] = "Live")
    /\ [](opc \in ThreadDtorSites => tstate[ThreadDtorObj(opc)] = "Completed")
    /\ [][ \A o \in {1, 3} :
             (tstate[o] = "Live" /\ tstate'[o] = "Completed")
                => (opc \in JoinSites /\ JoinObj(opc) = o /\ opc' \in ThreadDtorSites)
         ]_vars

\* both std::thread objects have been joined and the second one is about to
\* be destroyed
C15_Witness ==
    opc = "s_dtor" /\ tstate[1] = "Completed" /\ tstate[3] = "Completed"
        /\ proc = "running"

\* C16: at most one worker is running at any time; when a demonstration
\* constructs its thread every worker of an earlier demonstration has
\* returned, and none is running when main returns.
C16_OneWorkerAtATime ==
    /\ Cardinality({w \in Demos : WorkerRunning(w)}) <= 1
    /\ \A w \in Demos : WorkerRunning(w) => tstate[w] = "Live"
    /\ opc \in {"j_ctor", "s_source", "s_token", "s_ctor", "k_ctor", "m_ret", "exited"}
         => \A w \in Demos : ~WorkerRunning(w)
    /\ \A w \in Demos : (wpc[w] # "idle") => \A u \in 1 .. (w - 1) : wpc[u] = "done"

\* the last worker is running and the three before it have returned
C16_Witness ==
    wpc[4] = "poll" /\ wpc[1] = "done" /\ wpc[2] = "done" /\ wpc[3] = "done"

\* C17: end lies below the bound of the owner's loops and within int, the
\* loop counter never passes end, both loops are left at i = end, and the
\* code after the loop of przykladThread (the join of line 58) is never
\* reached.
C17_LoopLeavesAtEnd ==
    /\ End < LoopBound /\ LoopBound < INT_MAX
    /\ opc # "t_join58"
    /\ opc \in {"t_loop", "j_loop"} => (0 <= i /\ i <= End)
    /\ opc \in {"t_join51", "j_dtor"} => (i = End /\ ToUint32(i) <= LoopBound)

\* przykladJThread has left its loop through the return of line 73
C17_Witness == opc = "j_dtor" /\ i = End /\ tstate[1] = "Completed" /\ i > 0

====
